---- MODULE Spec2Model ----
(***************************************************************************)
(* Scoring API: the Store client (store.py), the scoring functions         *)
(* (scoring/service.py) and the request handler (api.py) as state          *)
(* machines.                                                               *)
(*                                                                         *)
(* Python values are tagged records: [t |-> "none"], [t |-> "str", v |-> s]*)
(* and so on, so that isinstance() and `is None` are tests of the tag.     *)
(* The text of a str is a sequence of characters, "7" being <<"7">>; a text *)
(* whose characters are never looked at (a stored JSON document, a salt)   *)
(* may be held as one piece.                                               *)
(* A float that is a multiple of 0.5 is held exactly as its number of      *)
(* halves: 1.5 is JFloat(3).                                               *)
(***************************************************************************)
EXTENDS Integers, Sequences, FiniteSets, TLC

VARIABLES
    client,     \* Store._client: 0 is None, n >= 1 the n-th redis.Redis object
    conns,      \* number of redis.Redis objects constructed so far
    retries,    \* Store.retries
    remote,     \* the remote key-value store: key -> [v, ttl]
    scall,      \* the Store-level call in progress / just finished
    fcache,     \* FakeStore.cache of the integration tests
    gcalls,     \* the get_score calls made on the FakeStore, oldest first
    hour,       \* wall clock, in whole hours (datetime.now() of check_auth)
    hcall       \* the method_handler call just finished (request, ctx, answer)

vars == <<client, conns, retries, remote, scall, fcache, gcalls, hour, hcall>>

storeVars == <<client, conns, retries, remote, scall>>
scoreVars == <<fcache, gcalls>>
apiVars == <<hour, hcall>>

----------------------------------------------------------------------------
(* Bounds of the model *)

MaxConns == 2
MaxCalls == 2
MaxHour == 2

(* Program constants *)

DefaultRetries == 3
ScoreTTL == 3600
OK == 200
BAD_REQUEST == 400
FORBIDDEN == 403
NOT_FOUND == 404
INVALID_REQUEST == 422
INTERNAL_ERROR == 500

----------------------------------------------------------------------------
(* Python values *)

None == [t |-> "none"]
JStr(s) == [t |-> "str", v |-> s]
JInt(i) == [t |-> "int", v |-> i]
JFloat(h) == [t |-> "float", v |-> h]
JList(l) == [t |-> "list", v |-> l]
JDict(d) == [t |-> "dict", v |-> d]
JDate(d) == [t |-> "date", v |-> d]

IsNone(x) == x.t = "none"

\* Python truthiness of the values the model uses: `if x:` / `x or ""`
Truthy(x) ==
    CASE x.t = "none" -> FALSE
      [] x.t = "str" -> x.v # <<>>
      [] x.t = "int" -> x.v # 0
      [] x.t = "float" -> x.v # 0
      [] x.t = "list" -> x.v # <<>>
      [] x.t = "dict" -> DOMAIN x.v # {}
      [] OTHER -> TRUE

\* dict.get(name): the value, or None when the key is missing
DictGet(d, k) == IF k \in DOMAIN d THEN d[k] ELSE None

DictSet(d, k, v) == [x \in DOMAIN d \cup {k} |-> IF x = k THEN v ELSE d[x]]

EmptyDict == [x \in {} |-> None]

----------------------------------------------------------------------------
(* store.py *)

TransportErrors == {"ConnectionError", "TimeoutError", "RedisError"}

\* What one attempt of an operation on the remote store can do.
Outcomes == {"ok"} \cup TransportErrors

\* The remote store's behaviour during one call: the outcome of each attempt.
\* _execute stops at the first attempt that succeeds, so what the store would
\* have done afterwards is left out ("ok" from there on).
Behaviours ==
    {b \in [1..DefaultRetries -> Outcomes] :
        \A i, j \in 1..DefaultRetries : (i < j /\ b[i] = "ok") => b[j] = "ok"}

AllOk == [i \in 1..DefaultRetries |-> "ok"]

\* The remote store is reachable during the call: no attempt fails
Reachable(beh) == beh = AllOk

\* Store._connect: a new redis.Redis object only when the handle is None.
\* "cl" is the handle, "cn" the number of objects constructed so far.
Connect(cl, cn) ==
    IF cl = 0 THEN [client |-> cn + 1, conns |-> cn + 1]
    ELSE [client |-> cl, conns |-> cn]

\* Store._execute from attempt i on. "bound" is the redis.Redis object whose
\* method was passed as func (0: a callable that is no method of a handle).
\* The result says how the call ended, on which attempt func succeeded, the
\* handle and the object count it leaves, and what each attempt ran on.
RECURSIVE ExecuteFrom(_, _, _, _, _, _, _)
ExecuteFrom(i, n, bound, cl, cn, beh, log) ==
    IF i > n
    THEN \* the bare `raise` after the loop: no exception is being handled
         [kind |-> "raise", exc |-> "RuntimeError", okAt |-> 0,
          client |-> cl, conns |-> cn, log |-> log]
    ELSE LET c == Connect(cl, cn)
             att == [used |-> bound, cur |-> c.client, out |-> beh[i]]
         IN IF beh[i] = "ok"
            THEN [kind |-> "return", exc |-> "", okAt |-> i,
                  client |-> c.client, conns |-> c.conns,
                  log |-> Append(log, att)]
            ELSE \* except (ConnectionError, TimeoutError, RedisError)
                 ExecuteFrom(i + 1, n, bound, 0, c.conns, beh, Append(log, att))

Execute(n, bound, cl, cn, beh) == ExecuteFrom(1, n, bound, cl, cn, beh, <<>>)

\* str(x) of a small non-negative int
DigitStr == <<"0", "1", "2", "3", "4", "5", "6", "7", "8", "9">>

RECURSIVE IntStr(_)
IntStr(n) ==
    IF n < 10 THEN <<DigitStr[n + 1]>>
    ELSE IntStr(n \div 10) \o <<DigitStr[(n % 10) + 1]>>

\* str(f) of a float that is h halves: 3 halves is "1.5"
FloatRepr(h) == IntStr(h \div 2) \o <<".">> \o (IF h % 2 = 0 THEN <<"0">> ELSE <<"5">>)

\* The largest score get_score can accumulate, in halves (1.5 + 1.5 + 1.5 + 0.5)
MaxHalves == 3 + 3 + 3 + 1

\* float(x): a float as it is, a string by its decimal reading; anything the
\* model cannot read as a number raises ValueError
CanFloat(x) ==
    \/ x.t = "float"
    \/ x.t = "str" /\ \E h \in 0..MaxHalves : FloatRepr(h) = x.v

ToFloat(x) ==
    IF x.t = "float" THEN x
    ELSE JFloat(CHOOSE h \in 0..MaxHalves : FloatRepr(h) = x.v)

\* What redis keeps for a value written with setex: its string form
RedisEncode(x) == IF x.t = "float" THEN FloatRepr(x.v) ELSE x.v

\* redis.Redis.get with decode_responses=True: a str, or None
RemoteGet(rem, key) == IF key \in DOMAIN rem THEN JStr(rem[key].v) ELSE None

\* redis.Redis.setex(key, timeout, value)
RemoteSetex(rem, key, ttl, x) == DictSet(rem, key, [v |-> RedisEncode(x), ttl |-> ttl])

\* The Store object and the remote store behind it, as one value
StoreObj(cl, cn, n, rem) ==
    [kind |-> "redis", client |-> cl, conns |-> cn, retries |-> n, remote |-> rem]

\* FakeStore of tests/integration/test_scoring_service.py
FakeObj(cache, storage) == [kind |-> "fake", cache |-> cache, storage |-> storage]

\* Store.get: evaluating self._client.get on a None handle raises
\* AttributeError before _execute is entered; nothing is caught here.
StoreGet(st, key, beh) ==
    IF st.kind = "fake"
    THEN [kind |-> "return", val |-> DictGet(st.storage, key), exc |-> "",
          st |-> st, log |-> <<>>]
    ELSE IF st.client = 0
    THEN [kind |-> "raise", val |-> None, exc |-> "AttributeError",
          st |-> st, log |-> <<>>]
    ELSE LET r == Execute(st.retries, st.client, st.client, st.conns, beh)
             st2 == [st EXCEPT !.client = r.client, !.conns = r.conns]
         IN IF r.kind = "return"
            THEN [kind |-> "return", val |-> RemoteGet(st.remote, key), exc |-> "",
                  st |-> st2, log |-> r.log]
            ELSE [kind |-> "raise", val |-> None, exc |-> r.exc,
                  st |-> st2, log |-> r.log]

\* Store.cache_get without its try/except: the exception reaches the caller
CacheGetUnguarded(st, key, beh) ==
    IF st.kind = "fake"
    THEN [kind |-> "return", val |-> DictGet(st.cache, key), exc |-> "",
          st |-> st, log |-> <<>>]
    ELSE StoreGet(st, key, beh)

\* Store.cache_get: the same call inside try/except Exception -> None.
\* "exc" keeps the swallowed exception for the record; "kind" is what the
\* caller sees.
CacheGet(st, key, beh) ==
    IF st.kind = "fake"
    THEN [kind |-> "return", val |-> DictGet(st.cache, key), exc |-> "",
          st |-> st, log |-> <<>>]
    ELSE LET r == StoreGet(st, key, beh)
         IN IF r.kind = "return" THEN r
            ELSE [r EXCEPT !.kind = "return", !.val = None]

\* Store.cache_set: self._execute(self._client.setex, key, timeout, value)
\* inside try/except Exception -> pass
CacheSet(st, key, x, ttl, beh) ==
    IF st.kind = "fake"
    THEN [kind |-> "return", val |-> None, exc |-> "",
          st |-> [st EXCEPT !.cache = DictSet(st.cache, key, x)], log |-> <<>>]
    ELSE IF st.client = 0
    THEN [kind |-> "return", val |-> None, exc |-> "AttributeError",
          st |-> st, log |-> <<>>]
    ELSE LET r == Execute(st.retries, st.client, st.client, st.conns, beh)
             st2 == [st EXCEPT !.client = r.client, !.conns = r.conns]
         IN IF r.kind = "return"
            THEN [kind |-> "return", val |-> None, exc |-> "",
                  st |-> [st2 EXCEPT !.remote = RemoteSetex(st.remote, key, ttl, x)],
                  log |-> r.log]
            ELSE [kind |-> "return", val |-> None, exc |-> r.exc,
                  st |-> st2, log |-> r.log]

----------------------------------------------------------------------------
(* scoring/service.py *)

Pad2(n) == IF n < 10 THEN <<"0">> \o IntStr(n) ELSE IntStr(n)

\* datetime.strftime("%Y%m%d") of a date [y, m, d] with a four-digit year
Strftime(d) == IntStr(d.y) \o Pad2(d.m) \o Pad2(d.d)

\* hashlib.md5(s).hexdigest(): equal for equal strings; two different strings
\* are taken to have different digests
Md5Hex(s) == <<"md5(">> \o s \o <<")">>

\* `x or ""`
OrEmpty(x) == IF Truthy(x) THEN x ELSE JStr(<<>>)

\* The exception raised while the cache key is built, "" when there is none:
\* birthday.strftime on a value that is no date, "".join on a part that is
\* no str
KeyError(a) ==
    IF Truthy(a.birthday) /\ a.birthday.t # "date" THEN "AttributeError"
    ELSE IF \E x \in {a.first_name, a.last_name, a.phone} : OrEmpty(x).t # "str"
    THEN "TypeError"
    ELSE ""

\* key = "uid:" + md5("".join(key_parts))
ScoreKey(a) ==
    <<"uid:">> \o Md5Hex(OrEmpty(a.first_name).v \o OrEmpty(a.last_name).v
                     \o OrEmpty(a.phone).v
                     \o (IF Truthy(a.birthday) THEN Strftime(a.birthday.v) ELSE <<>>))

\* The accumulation with the email term left out
AccumulateNoEmail(a) ==
    (IF Truthy(a.phone) THEN 3 ELSE 0)
    + (IF Truthy(a.birthday) /\ ~IsNone(a.gender) THEN 3 ELSE 0)
    + (IF Truthy(a.first_name) /\ Truthy(a.last_name) THEN 1 ELSE 0)

\* The accumulation of get_score, in halves
Accumulate(a) ==
    (IF Truthy(a.phone) THEN 3 ELSE 0)
    + (IF Truthy(a.email) THEN 3 ELSE 0)
    + (IF Truthy(a.birthday) /\ ~IsNone(a.gender) THEN 3 ELSE 0)
    + (IF Truthy(a.first_name) /\ Truthy(a.last_name) THEN 1 ELSE 0)

\* `if score:` in place of the test below
CacheHitTruthy(x) == Truthy(x)

\* `if score is not None`
CacheHit(x) == ~IsNone(x)

\* One store call as get_score issues it
GetOp(key) == [op |-> "cache_get", key |-> key]
SetOp(key, x, ttl) == [op |-> "cache_set", key |-> key, val |-> x, ttl |-> ttl]

\* get_score(store, **a). behGet and behSet are what the remote store does
\* during the cache read and the cache write. "ops" lists the store calls
\* made, "acc" says whether the accumulation ran.
GetScore(st, a, behGet, behSet) ==
    IF KeyError(a) # ""
    THEN [kind |-> "raise", exc |-> KeyError(a), val |-> None, st |-> st,
          key |-> <<>>, ops |-> <<>>, acc |-> FALSE,
          got |-> None, excGet |-> "", excSet |-> ""]
    ELSE LET \* after store.cache_set(key, score, 60 * 60) has ended as w
             Written(key, g, score, w) ==
                 [kind |-> w.kind, exc |-> IF w.kind = "raise" THEN w.exc ELSE "",
                  val |-> IF w.kind = "raise" THEN None ELSE score,
                  st |-> w.st, key |-> key,
                  ops |-> <<GetOp(key), SetOp(key, score, 60 * 60)>>, acc |-> TRUE,
                  got |-> None, excGet |-> g.exc, excSet |-> w.exc]
             Miss(key, g, score) ==
                 Written(key, g, score, CacheSet(g.st, key, score, 60 * 60, behSet))
             \* after store.cache_get(key) has ended as g
             Read(key, g) ==
                 IF g.kind = "raise"
                 THEN [kind |-> "raise", exc |-> g.exc, val |-> None, st |-> g.st,
                       key |-> key, ops |-> <<GetOp(key)>>, acc |-> FALSE,
                       got |-> None, excGet |-> g.exc, excSet |-> ""]
                 ELSE IF CacheHit(g.val)
                 THEN \* return float(score)
                      [kind |-> IF CanFloat(g.val) THEN "return" ELSE "raise",
                       exc |-> IF CanFloat(g.val) THEN "" ELSE "ValueError",
                       val |-> IF CanFloat(g.val) THEN ToFloat(g.val) ELSE None,
                       st |-> g.st, key |-> key, ops |-> <<GetOp(key)>>, acc |-> FALSE,
                       got |-> g.val, excGet |-> g.exc, excSet |-> ""]
                 ELSE Miss(key, g, JFloat(Accumulate(a)))
             Keyed(key) == Read(key, CacheGet(st, key, behGet))
         IN Keyed(ScoreKey(a))

\* get_interests(store, cid): json.loads(r) if r else []. The stored texts
\* of the model are the JSON texts of InterestTexts.
JsonLoads(s) ==
    CASE s = <<"[]">> -> JList(<<>>)
      [] s = <<"[\"cars\", \"music\"]">> -> JList(<<JStr(<<"cars">>), JStr(<<"music">>)>>)
      [] s = <<"[\"books\"]">> -> JList(<<JStr(<<"books">>)>>)
      [] OTHER -> [t |-> "JSONDecodeError"]

\* get_interests that takes a failed store read for a missing entry
GetInterestsSwallows(st, cid, beh) ==
    LET r == StoreGet(st, <<"i:">> \o cid, beh)
    IN IF r.kind = "raise" THEN [r EXCEPT !.kind = "return", !.exc = "", !.val = JList(<<>>)]
       ELSE IF ~Truthy(r.val) THEN [r EXCEPT !.val = JList(<<>>)]
       ELSE [r EXCEPT !.val = JsonLoads(r.val.v)]

GetInterests(st, cid, beh) ==
    LET r == StoreGet(st, <<"i:">> \o cid, beh)
    IN IF r.kind = "raise" THEN r
       ELSE IF ~Truthy(r.val) THEN [r EXCEPT !.val = JList(<<>>)]
       ELSE IF JsonLoads(r.val.v).t = "JSONDecodeError"
       THEN [r EXCEPT !.kind = "raise", !.exc = "JSONDecodeError", !.val = None]
       ELSE [r EXCEPT !.val = JsonLoads(r.val.v)]

----------------------------------------------------------------------------
(* api.py: fields *)

SALT == <<"O", "t", "u", "s">>
ADMIN_LOGIN == <<"a", "d", "m", "i", "n">>
ADMIN_SALT == <<"4", "2">>

\* datetime.date.today()
Today == [y |-> 2026, m |-> 11, d |-> 4]

IsDigit(c) == \E i \in 1..10 : DigitStr[i] = c

DigitVal(c) == (CHOOSE i \in 1..10 : DigitStr[i] = c) - 1

\* int() of a sequence of digits
RECURSIVE DigitsVal(_)
DigitsVal(s) ==
    IF s = <<>> THEN 0
    ELSE 10 * DigitsVal(SubSeq(s, 1, Len(s) - 1)) + DigitVal(s[Len(s)])

IsLeap(y) == (y % 4 = 0 /\ y % 100 # 0) \/ y % 400 = 0

DaysInMonth(y, m) ==
    IF m = 2 THEN (IF IsLeap(y) THEN 29 ELSE 28)
    ELSE IF m \in {4, 6, 9, 11} THEN 30 ELSE 31

\* datetime.strptime(s, "%d.%m.%Y"): [ok |-> FALSE] is ValueError. The day
\* and the month are one or two digits, the year is four.
Strptime(s) ==
    LET dots == {i \in 1..Len(s) : s[i] = "."}
    IN IF Cardinality(dots) # 2 \/ \E i \in 1..Len(s) : ~(IsDigit(s[i]) \/ s[i] = ".")
       THEN [ok |-> FALSE]
       ELSE LET p == CHOOSE i \in dots : \A j \in dots : i <= j
                q == CHOOSE i \in dots : \A j \in dots : j <= i
                ds == SubSeq(s, 1, p - 1)
                ms == SubSeq(s, p + 1, q - 1)
                ys == SubSeq(s, q + 1, Len(s))
            IN IF Len(ds) \notin {1, 2} \/ Len(ms) \notin {1, 2} \/ Len(ys) # 4
               THEN [ok |-> FALSE]
               ELSE LET d == DigitsVal(ds)
                        m == DigitsVal(ms)
                        y == DigitsVal(ys)
                    IN IF y < 1 \/ m < 1 \/ m > 12 \/ d < 1 \/ d > DaysInMonth(y, m)
                       THEN [ok |-> FALSE]
                       ELSE [ok |-> TRUE, y |-> y, m |-> m, d |-> d]

RECURSIVE DaysBeforeMonth(_, _)
DaysBeforeMonth(y, m) ==
    IF m = 1 THEN 0 ELSE DaysBeforeMonth(y, m - 1) + DaysInMonth(y, m - 1)

\* date.toordinal()
Ordinal(dt) ==
    (dt.y - 1) * 365 + ((dt.y - 1) \div 4) - ((dt.y - 1) \div 100) + ((dt.y - 1) \div 400)
    + DaysBeforeMonth(dt.y, dt.m) + dt.d

\* Each validate returns the message of the ValidationError it raises, ""
\* when it raises none.

\* Field.validate
FieldValidate(required, x) ==
    IF IsNone(x) /\ required THEN "field is required" ELSE ""

\* CharField.validate
CharValidate(required, x) ==
    IF FieldValidate(required, x) # "" THEN FieldValidate(required, x)
    ELSE IF IsNone(x) THEN ""
    ELSE IF x.t # "str" THEN "value must be a string"
    ELSE ""

\* EmailField.validate
EmailValidate(required, x) ==
    IF CharValidate(required, x) # "" THEN CharValidate(required, x)
    ELSE IF IsNone(x) THEN ""
    ELSE IF ~\E i \in 1..Len(x.v) : x.v[i] = "@" THEN "invalid email"
    ELSE ""

\* PhoneField.validate
PhoneValidate(required, x) ==
    IF FieldValidate(required, x) # "" THEN FieldValidate(required, x)
    ELSE IF IsNone(x) THEN ""
    ELSE LET value == IF x.t = "int" THEN JStr(IntStr(x.v)) ELSE x
         IN IF value.t # "str" THEN "phone must be string or int"
            ELSE IF Len(value.v) # 11 \/ value.v[1] # "7" THEN "invalid phone"
            ELSE ""

\* DateField.validate
DateValidate(required, x) ==
    IF FieldValidate(required, x) # "" THEN FieldValidate(required, x)
    ELSE IF IsNone(x) THEN ""
    ELSE IF x.t # "str" THEN "date must be string"
    ELSE IF ~Strptime(x.v).ok THEN "invalid date format"
    ELSE ""

\* BirthDayField.validate
BirthDayValidate(required, x) ==
    IF DateValidate(required, x) # "" THEN DateValidate(required, x)
    ELSE IF IsNone(x) THEN ""
    ELSE LET age == (Ordinal(Today) - Ordinal(Strptime(x.v))) \div 365
         IN IF age > 70 THEN "invalid birthday" ELSE ""

\* GenderField.validate
GenderValidate(required, x) ==
    IF FieldValidate(required, x) # "" THEN FieldValidate(required, x)
    ELSE IF IsNone(x) THEN ""
    ELSE IF x.t # "int" THEN "gender must be int"
    ELSE IF x.v \notin {0, 1, 2} THEN "invalid gender"
    ELSE ""

\* ClientIDsField.validate that lets the empty list through
ClientIDsValidateAllowsEmpty(required, x) ==
    IF FieldValidate(required, x) # "" THEN FieldValidate(required, x)
    ELSE IF x.t # "list" THEN "client_ids must be non-empty list"
    ELSE IF \E i \in 1..Len(x.v) : x.v[i].t # "int" THEN "client_ids must contain ints"
    ELSE ""

\* ClientIDsField.validate
ClientIDsValidate(required, x) ==
    IF FieldValidate(required, x) # "" THEN FieldValidate(required, x)
    ELSE IF x.t # "list" \/ x.v = <<>> THEN "client_ids must be non-empty list"
    ELSE IF \E i \in 1..Len(x.v) : x.v[i].t # "int" THEN "client_ids must contain ints"
    ELSE ""

\* field.validate(value), by the class of the field
KindValidate(kind, required, x) ==
    CASE kind = "Char" -> CharValidate(required, x)
      [] kind = "Email" -> EmailValidate(required, x)
      [] kind = "Phone" -> PhoneValidate(required, x)
      [] kind = "Date" -> DateValidate(required, x)
      [] kind = "BirthDay" -> BirthDayValidate(required, x)
      [] kind = "Gender" -> GenderValidate(required, x)
      [] kind = "ClientIDs" -> ClientIDsValidate(required, x)
      [] OTHER -> FieldValidate(required, x)

Fld(name, kind, required) == [name |-> name, kind |-> kind, required |-> required]

\* collect_fields(cls): the fields of each request class, in class order
ClientsInterestsFields ==
    <<Fld("client_ids", "ClientIDs", TRUE), Fld("date", "Date", FALSE)>>

OnlineScoreFields ==
    <<Fld("first_name", "Char", FALSE), Fld("last_name", "Char", FALSE),
      Fld("email", "Email", FALSE), Fld("phone", "Phone", FALSE),
      Fld("birthday", "BirthDay", FALSE), Fld("gender", "Gender", FALSE)>>

MethodFields ==
    <<Fld("account", "Char", FALSE), Fld("login", "Char", TRUE),
      Fld("token", "Char", TRUE), Fld("arguments", "Arguments", TRUE),
      Fld("method", "Char", TRUE)>>

\* BaseRequest.validate that gives up at the first field in error
RECURSIVE ValidateStopsAtError(_, _, _, _, _)
ValidateStopsAtError(fields, data, i, errors, attrs) ==
    IF i > Len(fields) \/ DOMAIN errors # {}
    THEN [ok |-> DOMAIN errors = {}, errors |-> errors, attrs |-> attrs]
    ELSE LET f == fields[i]
             value == DictGet(data, f.name)
             msg == KindValidate(f.kind, f.required, value)
         IN IF msg = ""
            THEN ValidateStopsAtError(fields, data, i + 1, errors, DictSet(attrs, f.name, value))
            ELSE ValidateStopsAtError(fields, data, i + 1, DictSet(errors, f.name, msg), attrs)

\* BaseRequest.validate from field i on: every field is validated; a valid
\* value becomes an attribute, a ValidationError an entry of errors.
RECURSIVE ValidateFrom(_, _, _, _, _)
ValidateFrom(fields, data, i, errors, attrs) ==
    IF i > Len(fields)
    THEN [ok |-> DOMAIN errors = {}, errors |-> errors, attrs |-> attrs]
    ELSE LET f == fields[i]
             value == DictGet(data, f.name)
             Record(msg) ==
                 IF msg = ""
                 THEN ValidateFrom(fields, data, i + 1, errors, DictSet(attrs, f.name, value))
                 ELSE ValidateFrom(fields, data, i + 1, DictSet(errors, f.name, msg), attrs)
         IN Record(KindValidate(f.kind, f.required, value))

\* BaseRequest(data).validate()
Validate(fields, data) == ValidateFrom(fields, data, 1, EmptyDict, EmptyDict)

----------------------------------------------------------------------------
(* api.py: check_auth and method_handler *)

\* hashlib.sha512(s).hexdigest(): equal for equal strings; two different
\* strings are taken to have different digests
Sha512Hex(s) == <<"sha512(">> \o s \o <<")">>

\* datetime.now().strftime("%Y%m%d%H") in hour h of today
HourStr(h) == Strftime(Today) \o Pad2(h)

\* MethodRequest.is_admin
IsAdmin(attrs) == attrs.login = JStr(ADMIN_LOGIN)

\* check_auth whose digest leaves the account out
CheckAuthNoAccount(attrs, h) ==
    LET digest == IF IsAdmin(attrs)
                  THEN Sha512Hex(HourStr(h) \o ADMIN_SALT)
                  ELSE Sha512Hex(attrs.login.v \o SALT)
    IN JStr(digest) = attrs.token

\* check_auth that lets the administrator in with any token
CheckAuthAdminAnyToken(attrs, h) ==
    \/ IsAdmin(attrs)
    \/ JStr(Sha512Hex(OrEmpty(attrs.account).v \o attrs.login.v \o SALT)) = attrs.token

\* check_auth(request) in hour h
CheckAuth(attrs, h) ==
    LET digest == IF IsAdmin(attrs)
                  THEN Sha512Hex(HourStr(h) \o ADMIN_SALT)
                  ELSE Sha512Hex(OrEmpty(attrs.account).v \o attrs.login.v \o SALT)
    IN JStr(digest) = attrs.token

\* scoring.core.get_score as api.py calls it, without a store argument: the
\* scoring function of scoring/service.py over the module's store, the
\* birthday being the date its text denotes.
CoreGetScore(st, attrs, beh) ==
    LET a == [phone |-> attrs.phone, email |-> attrs.email,
              birthday |-> IF IsNone(attrs.birthday) THEN None
                           ELSE LET dt == Strptime(attrs.birthday.v)
                                IN JDate([y |-> dt.y, m |-> dt.m, d |-> dt.d]),
              gender |-> attrs.gender,
              first_name |-> attrs.first_name, last_name |-> attrs.last_name]
    IN GetScore(st, a, beh, beh)

\* scoring.core.get_interests(cid) as api.py calls it: get_interests of
\* scoring/service.py over the module's store
CoreGetInterests(st, cid, beh) == GetInterests(st, IntStr(cid.v), beh)

\* What a return of method_handler looks like
Answer(payload, code, ctx, st, ops, stage) ==
    [kind |-> "return", exc |-> "", payload |-> payload, code |-> code,
     ctx |-> ctx, st |-> st, ops |-> ops, stage |-> stage]

\* An exception leaving method_handler
Raised(exc, ctx, st, ops, stage) ==
    [kind |-> "raise", exc |-> exc, payload |-> None, code |-> 0,
     ctx |-> ctx, st |-> st, ops |-> ops, stage |-> stage]

ErrorPayload(msg) == JDict([k \in {"error"} |-> JStr(<<msg>>)])

ErrorsOf(errors) == JDict([k \in DOMAIN errors |-> JStr(<<errors[k]>>)])

\* The end of the online_score branch with the administrator's short cut
\* left out
ScoreAnswerNoAdmin(attrs, args, ctx, st, beh) ==
    LET r == CoreGetScore(st, args, beh)
    IN IF r.kind = "raise" THEN Raised(r.exc, ctx, r.st, r.ops, "score")
       ELSE Answer(JDict([k \in {"score"} |-> r.val]), OK, ctx, r.st, r.ops, "score")

\* The end of the online_score branch: 42 for the administrator, get_score
\* for everybody else
ScoreAnswer(attrs, args, ctx, st, beh) ==
    IF IsAdmin(attrs)
    THEN Answer(JDict([k \in {"score"} |-> JInt(42)]), OK, ctx, st, <<>>, "admin")
    ELSE LET Scored(r) ==
                 IF r.kind = "raise" THEN Raised(r.exc, ctx, r.st, r.ops, "score")
                 ELSE Answer(JDict([k \in {"score"} |-> r.val]), OK, ctx, r.st, r.ops,
                             "score")
         IN Scored(CoreGetScore(st, args, beh))

\* The online_score branch with a rule on pairs that wants both members
\* non-empty
OnlineScoreTruthyPairs(attrs, ctx, st, beh) ==
    LET arguments == attrs.arguments
    IN IF arguments.t # "dict"
       THEN Answer(ErrorPayload("Invalid arguments"), INVALID_REQUEST, ctx, st, <<>>, "args")
       ELSE LET v == Validate(OnlineScoreFields, arguments.v)
            IN IF ~v.ok
               THEN Answer(ErrorsOf(v.errors), INVALID_REQUEST, ctx, st, <<>>, "inner")
               ELSE LET a == v.attrs
                    IN IF ~(\/ Truthy(a.phone) /\ Truthy(a.email)
                            \/ Truthy(a.first_name) /\ Truthy(a.last_name)
                            \/ Truthy(a.gender) /\ Truthy(a.birthday))
                       THEN Answer(ErrorPayload("Invalid arguments"), INVALID_REQUEST,
                                   ctx, st, <<>>, "cross")
                       ELSE LET has == {k \in DOMAIN arguments.v : ~IsNone(arguments.v[k])}
                                ctx2 == DictSet(ctx, "has", [t |-> "names", v |-> has])
                            IN ScoreAnswer(attrs, a, ctx2, st, beh)

\* The online_score branch that asks for the score before it applies the
\* rule on pairs
OnlineScoreScoresFirst(attrs, ctx, st, beh) ==
    LET arguments == attrs.arguments
    IN IF arguments.t # "dict"
       THEN Answer(ErrorPayload("Invalid arguments"), INVALID_REQUEST, ctx, st, <<>>, "args")
       ELSE LET v == Validate(OnlineScoreFields, arguments.v)
            IN IF ~v.ok
               THEN Answer(ErrorsOf(v.errors), INVALID_REQUEST, ctx, st, <<>>, "inner")
               ELSE LET a == v.attrs
                        filled(x) == ~IsNone(x)
                        has == {k \in DOMAIN arguments.v : ~IsNone(arguments.v[k])}
                        ctx2 == DictSet(ctx, "has", [t |-> "names", v |-> has])
                        r == ScoreAnswer(attrs, a, ctx2, st, beh)
                    IN IF ~(\/ filled(a.phone) /\ filled(a.email)
                            \/ filled(a.first_name) /\ filled(a.last_name)
                            \/ filled(a.gender) /\ filled(a.birthday))
                       THEN Answer(ErrorPayload("Invalid arguments"), INVALID_REQUEST,
                                   ctx, r.st, r.ops, "cross")
                       ELSE r

\* The online_score branch of method_handler
OnlineScore(attrs, ctx, st, beh) ==
    LET arguments == attrs.arguments
        filled(x) == ~IsNone(x)
        \* after score_request.validate() has ended as v
        Validated(v) ==
            IF ~v.ok
            THEN Answer(ErrorsOf(v.errors), INVALID_REQUEST, ctx, st, <<>>, "inner")
            ELSE IF ~(\/ filled(v.attrs.phone) /\ filled(v.attrs.email)
                      \/ filled(v.attrs.first_name) /\ filled(v.attrs.last_name)
                      \/ filled(v.attrs.gender) /\ filled(v.attrs.birthday))
            THEN Answer(ErrorPayload("Invalid arguments"), INVALID_REQUEST,
                        ctx, st, <<>>, "cross")
            ELSE LET has == {k \in DOMAIN arguments.v : ~IsNone(arguments.v[k])}
                     ctx2 == DictSet(ctx, "has", [t |-> "names", v |-> has])
                 IN ScoreAnswer(attrs, v.attrs, ctx2, st, beh)
    IN IF arguments.t # "dict"
       THEN Answer(ErrorPayload("Invalid arguments"), INVALID_REQUEST, ctx, st, <<>>, "args")
       ELSE Validated(Validate(OnlineScoreFields, arguments.v))

\* {str(cid): get_interests(cid) for cid in ids} from element i on; the first
\* exception ends it
RECURSIVE InterestsFrom(_, _, _, _, _, _)
InterestsFrom(ids, i, st, beh, result, ops) ==
    IF i > Len(ids)
    THEN [kind |-> "return", exc |-> "", val |-> result, st |-> st, ops |-> ops]
    ELSE LET ops2 == Append(ops, [op |-> "get", key |-> <<"i:">> \o IntStr(ids[i].v)])
             Got(r) ==
                 IF r.kind = "raise"
                 THEN [kind |-> "raise", exc |-> r.exc, val |-> result, st |-> r.st,
                       ops |-> ops2]
                 ELSE InterestsFrom(ids, i + 1, r.st, beh,
                                    DictSet(result, IntStr(ids[i].v), r.val), ops2)
         IN Got(CoreGetInterests(st, ids[i], beh))

\* The clients_interests branch that records a count of 0 in the context
\* when the arguments fail validation
ClientsInterestsCountsFirst(attrs, ctx, st, beh) ==
    LET arguments == attrs.arguments
    IN IF arguments.t # "dict"
       THEN Answer(ErrorPayload("Invalid arguments"), INVALID_REQUEST, ctx, st, <<>>, "args")
       ELSE LET v == Validate(ClientsInterestsFields, arguments.v)
            IN IF ~v.ok
               THEN Answer(ErrorsOf(v.errors), INVALID_REQUEST,
                           DictSet(ctx, "nclients", JInt(0)), st, <<>>, "inner")
               ELSE LET ids == v.attrs.client_ids.v
                        ctx2 == DictSet(ctx, "nclients", JInt(Len(ids)))
                        r == InterestsFrom(ids, 1, st, beh, EmptyDict, <<>>)
                    IN IF r.kind = "raise"
                       THEN Raised(r.exc, ctx2, r.st, r.ops, "interests")
                       ELSE Answer(JDict(r.val), OK, ctx2, r.st, r.ops, "interests")

\* The clients_interests branch of method_handler
ClientsInterests(attrs, ctx, st, beh) ==
    LET arguments == attrs.arguments
        \* after the dict comprehension over req.client_ids has ended as r
        Looked(ctx2, r) ==
            IF r.kind = "raise"
            THEN Raised(r.exc, ctx2, r.st, r.ops, "interests")
            ELSE Answer(JDict(r.val), OK, ctx2, r.st, r.ops, "interests")
        \* after req.validate() has ended as v
        Validated(v) ==
            IF ~v.ok
            THEN Answer(ErrorsOf(v.errors), INVALID_REQUEST, ctx, st, <<>>, "inner")
            ELSE Looked(DictSet(ctx, "nclients", JInt(Len(v.attrs.client_ids.v))),
                        InterestsFrom(v.attrs.client_ids.v, 1, st, beh, EmptyDict, <<>>))
    IN IF arguments.t # "dict"
       THEN Answer(ErrorPayload("Invalid arguments"), INVALID_REQUEST, ctx, st, <<>>, "args")
       ELSE Validated(Validate(ClientsInterestsFields, arguments.v))

\* method_handler(request, ctx) in hour h over the module's store st, the
\* remote store behaving as beh during each store call
MethodHandler(request, ctx, h, st, beh) ==
    IF request.t # "dict"
    THEN Answer(ErrorPayload("Invalid request"), INVALID_REQUEST, ctx, st, <<>>, "envelope")
    ELSE LET body == DictGet(request.v, "body")
             \* after method_request.validate() has ended as mr
             Validated(mr) ==
                 IF ~mr.ok
                 THEN Answer(ErrorsOf(mr.errors), INVALID_REQUEST, ctx, st, <<>>, "outer")
                 ELSE IF ~CheckAuth(mr.attrs, h)
                 THEN Answer(JStr(<<"Forbidden">>), FORBIDDEN, ctx, st, <<>>, "auth")
                 ELSE IF mr.attrs.method = JStr(<<"online_score">>)
                 THEN OnlineScore(mr.attrs, ctx, st, beh)
                 ELSE IF mr.attrs.method = JStr(<<"clients_interests">>)
                 THEN ClientsInterests(mr.attrs, ctx, st, beh)
                 ELSE Answer(ErrorPayload("Invalid request"), INVALID_REQUEST, ctx, st,
                             <<>>, "method")
         IN IF body.t # "dict"
            THEN Answer(ErrorPayload("Invalid request"), INVALID_REQUEST, ctx, st, <<>>,
                        "envelope")
            ELSE Validated(Validate(MethodFields, body.v))

----------------------------------------------------------------------------
(* api.py: MainHTTPHandler.do_POST *)

\* ERRORS: the message of each error code
ERRORS ==
    [c \in {BAD_REQUEST, FORBIDDEN, NOT_FOUND, INVALID_REQUEST, INTERNAL_ERROR} |->
        CASE c = BAD_REQUEST -> JStr(<<"Bad Request">>)
          [] c = FORBIDDEN -> JStr(<<"Forbidden">>)
          [] c = NOT_FOUND -> JStr(<<"Not Found">>)
          [] c = INVALID_REQUEST -> JStr(<<"Invalid Request">>)
          [] c = INTERNAL_ERROR -> JStr(<<"Internal Server Error">>)]

\* MainHTTPHandler.router: the paths that have a handler
Router == {<<"m", "e", "t", "h", "o", "d">>}

\* path.strip("/"): the path without its leading and trailing slashes
RECURSIVE LStrip(_)
LStrip(p) == IF p # <<>> /\ Head(p) = "/" THEN LStrip(Tail(p)) ELSE p

RECURSIVE RStrip(_)
RStrip(p) == IF p # <<>> /\ p[Len(p)] = "/" THEN RStrip(SubSeq(p, 1, Len(p) - 1)) ELSE p

Strip(p) == RStrip(LStrip(p))

\* What the client posts: the Content-Length header may be missing; the text
\* read is the JSON text of a value or no JSON at all
Posted(hasLength, isJson, value) == [length |-> hasLength, json |-> isJson, value |-> value]

\* rfile.read(int(headers["Content-Length"])) then json.loads(data_string)
ReadRequest(data) ==
    IF ~data.length THEN [kind |-> "raise", exc |-> "TypeError", val |-> None]
    ELSE IF ~data.json THEN [kind |-> "raise", exc |-> "JSONDecodeError", val |-> None]
    ELSE [kind |-> "return", exc |-> "", val |-> data.value]

\* No handler was called
NotRouted == [kind |-> "none"]

\* The end of do_POST: send_response(code) and the body written
SendResponse(response, code, context, st, handler) ==
    LET r == IF code \notin DOMAIN ERRORS
             THEN [k \in {"response", "code"} |-> IF k = "code" THEN JInt(code) ELSE response]
             ELSE [k \in {"error", "code"} |->
                     IF k = "code" THEN JInt(code)
                     ELSE IF Truthy(response) THEN response ELSE ERRORS[code]]
        updated == [k \in DOMAIN context \cup DOMAIN r |->
                      IF k \in DOMAIN r THEN r[k] ELSE context[k]]
    IN [status |-> code, r |-> JDict(r), context |-> updated, st |-> st,
        handler |-> handler]

\* MainHTTPHandler.do_POST in hour h over the module's store st
DoPost(path, data, h, st, beh) ==
    LET context == [k \in {"request_id"} |-> JStr(<<"rid">>)]
        read == ReadRequest(data)
        code == IF read.kind = "raise" THEN BAD_REQUEST ELSE OK
        request == read.val
    IN IF ~Truthy(request)
       THEN SendResponse(JDict(EmptyDict), code, context, st, NotRouted)
       ELSE IF Strip(path) \notin Router
       THEN SendResponse(JDict(EmptyDict), NOT_FOUND, context, st, NotRouted)
       ELSE CHOOSE sent \in
                {IF res.kind = "raise"
                 THEN SendResponse(JDict(EmptyDict), INTERNAL_ERROR, res.ctx, res.st, res)
                 ELSE SendResponse(res.payload, res.code, res.ctx, res.st, res) :
                    res \in {MethodHandler(
                               JDict([k \in {"body", "headers"} |->
                                        IF k = "body" THEN request ELSE JDict(EmptyDict)]),
                               context, h, st, beh)}} : TRUE

----------------------------------------------------------------------------
(* The Store under direct use: cache_get, cache_set, get, _execute and
   get_score over it *)

NoCall == [op |-> "none"]

\* The remote store as the processes start: interests of client 1 only
InitialRemote == [k \in {<<"i:", "1">>} |-> [v |-> <<"[\"cars\", \"music\"]">>, ttl |-> 0]]

StoreKeys == {<<"i:", "1">>, <<"i:", "2">>, <<"uid:", "k">>}
CacheKeys == {<<"uid:", "k">>}
CacheValues == {JStr(<<"v">>), JFloat(3)}

TheStore == StoreObj(client, conns, retries, remote)

\* The Store fields and the remote store after a call that left them as st
StoreBecomes(st) ==
    /\ client' = st.client
    /\ conns' = st.conns
    /\ remote' = st.remote
    /\ UNCHANGED retries

Idle == scall.op = "none" /\ conns <= MaxConns

StoreCacheGet ==
    /\ Idle
    /\ \E key \in StoreKeys, beh \in Behaviours : \E r \in {CacheGet(TheStore, key, beh)} :
          /\ scall' = [op |-> "cache_get", key |-> key, beh |-> beh,
                       before |-> TheStore, res |-> r]
          /\ StoreBecomes(r.st)
    /\ UNCHANGED <<scoreVars, apiVars>>

StoreCacheSet ==
    /\ Idle
    /\ \E key \in CacheKeys, x \in CacheValues, beh \in Behaviours : \E r \in {CacheSet(TheStore, key, x, ScoreTTL, beh)} :
          /\ scall' = [op |-> "cache_set", key |-> key, beh |-> beh, val |-> x,
                       before |-> TheStore, res |-> r]
          /\ StoreBecomes(r.st)
    /\ UNCHANGED <<scoreVars, apiVars>>

StoreGetCall ==
    /\ Idle
    /\ \E key \in StoreKeys, beh \in Behaviours : \E r \in {StoreGet(TheStore, key, beh)} :
          /\ scall' = [op |-> "get", key |-> key, beh |-> beh,
                       before |-> TheStore, res |-> r]
          /\ StoreBecomes(r.st)
    /\ UNCHANGED <<scoreVars, apiVars>>

\* store._execute(func) with a callable of the caller's own
StoreExecute ==
    /\ Idle
    /\ \E beh \in Behaviours : \E r \in {Execute(retries, 0, client, conns, beh)} :
          /\ scall' = [op |-> "_execute", key |-> <<>>, beh |-> beh,
                       before |-> TheStore,
                       res |-> [kind |-> r.kind, exc |-> r.exc, val |-> None,
                                log |-> r.log,
                                st |-> StoreObj(r.client, r.conns, retries, remote)]]
          /\ client' = r.client
          /\ conns' = r.conns
    /\ UNCHANGED <<retries, remote, scoreVars, apiVars>>

\* Arguments of get_score as its signature types them
NoArgs ==
    [phone |-> None, email |-> None, birthday |-> None, gender |-> None,
     first_name |-> None, last_name |-> None]

Birthday2000 == JDate([y |-> 2000, m |-> 1, d |-> 2])

\* phone and email each given or not; birthday alone or with gender 0; the
\* names both missing, first name alone, an empty first name, or both
ScoreArgs ==
    {[phone |-> p, email |-> e, birthday |-> bg[1], gender |-> bg[2],
      first_name |-> fl[1], last_name |-> fl[2]] :
        p \in {None, JStr(<<"7">>)}, e \in {None, JStr(<<"a", "@", "b">>)},
        bg \in {<<None, None>>, <<Birthday2000, None>>, <<Birthday2000, JInt(0)>>},
        fl \in {<<None, None>>, <<JStr(<<"a">>), None>>, <<JStr(<<>>), JStr(<<"b">>)>>,
                <<JStr(<<"a">>), JStr(<<"b">>)>>}}

StoreScoreArgs ==
    {a \in ScoreArgs : IsNone(a.first_name) /\ IsNone(a.last_name) /\ IsNone(a.birthday)}

ScoreBehaviours == {b \in Behaviours : \A i \in DOMAIN b : b[i] \in {"ok", "ConnectionError"}}

\* get_score(store, ...) over the Store
StoreGetScore ==
    /\ Idle
    /\ \E a \in StoreScoreArgs, behGet, behSet \in ScoreBehaviours : \E r \in {GetScore(TheStore, a, behGet, behSet)} :
          /\ scall' = [op |-> "get_score", key |-> r.key, args |-> a,
                       behGet |-> behGet, behSet |-> behSet,
                       before |-> TheStore, res |-> r]
          /\ StoreBecomes(r.st)
    /\ UNCHANGED <<scoreVars, apiVars>>

\* The caller has its answer
StoreReturn ==
    /\ scall.op # "none"
    /\ scall' = NoCall
    /\ UNCHANGED <<client, conns, retries, remote, scoreVars, apiVars>>

InitOther ==
    /\ fcache = EmptyDict
    /\ gcalls = <<>>
    /\ hour = 1
    /\ hcall = NoCall

InitStore ==
    /\ client = 0
    /\ conns = 0
    /\ retries \in 0..DefaultRetries
    /\ remote = InitialRemote
    /\ scall = NoCall
    /\ InitOther

NextStore ==
    \/ StoreCacheGet
    \/ StoreCacheSet
    \/ StoreGetCall
    \/ StoreExecute
    \/ StoreGetScore
    \/ StoreReturn

SpecStore == InitStore /\ [][NextStore]_vars

----------------------------------------------------------------------------
(* get_score over the FakeStore of the integration tests, which keeps what
   cache_set writes *)

KeyPhone7 == ScoreKey([NoArgs EXCEPT !.phone = JStr(<<"7">>)])

\* The cache as a test sets it up: empty, or one score already stored, as a
\* float or as the text redis would hand back
InitialCaches ==
    {EmptyDict,
     [k \in {KeyPhone7} |-> JFloat(10)],
     [k \in {KeyPhone7} |-> JStr(<<"1", ".", "5">>)]}

FakeGetScore ==
    /\ Len(gcalls) < MaxCalls
    /\ \E a \in ScoreArgs : \E r \in {GetScore(FakeObj(fcache, EmptyDict), a, AllOk, AllOk)} :
          /\ gcalls' = Append(gcalls, [args |-> a, before |-> fcache, res |-> r])
          /\ fcache' = r.st.cache
    /\ UNCHANGED <<storeVars, apiVars>>

InitScore ==
    /\ client = 0
    /\ conns = 0
    /\ retries = DefaultRetries
    /\ remote = InitialRemote
    /\ scall = NoCall
    /\ fcache \in InitialCaches
    /\ gcalls = <<>>
    /\ hour = 1
    /\ hcall = NoCall

NextScore == FakeGetScore

SpecScore == InitScore /\ [][NextScore]_vars

----------------------------------------------------------------------------
(* The request handler over the module's store = Store() *)

Account == <<"o">>
Login == <<"h">>

Accounts == {None, JStr(Account), JInt(5)}
Logins == {None, JStr(ADMIN_LOGIN), JStr(Login), JInt(5)}

UserToken == Sha512Hex(Account \o Login \o SALT)
UserTokenNoAccount == Sha512Hex(Login \o SALT)
AdminToken(h) == Sha512Hex(HourStr(h) \o ADMIN_SALT)

Tokens ==
    {None, JStr(<<>>), JStr(<<"s", "d", "d">>), JStr(UserToken), JStr(UserTokenNoAccount)}
    \cup {JStr(AdminToken(h)) : h \in 1..MaxHour}

Methods ==
    {None, JStr(<<"online_score">>), JStr(<<"clients_interests">>),
     JStr(<<"delete_everything">>)}

Phone79 == <<"7", "9", "1", "7", "5", "0", "0", "2", "0", "4", "0">>
Email == <<"a", "@", "b">>
Date2000 == <<"0", "1", ".", "0", "1", ".", "2", "0", "0", "0">>
Date1940 == <<"0", "1", ".", "0", "1", ".", "1", "9", "4", "0">>
Date2017 == <<"2", "0", ".", "0", "7", ".", "2", "0", "1", "7">>
DateIso == <<"2", "0", "1", "7", "0", "7", "2", "0">>

D1(k, x) == JDict([n \in {k} |-> x])
D2(k1, x1, k2, x2) == JDict([n \in {k1, k2} |-> IF n = k1 THEN x1 ELSE x2])

ScoreArguments ==
    {D2("phone", JStr(Phone79), "email", JStr(Email)),
     D2("first_name", JStr(<<"a">>), "last_name", JStr(<<"b">>)),
     D2("first_name", JStr(<<>>), "last_name", JStr(<<>>)),
     D2("gender", JInt(0), "birthday", JStr(Date2000)),
     D2("gender", JInt(1), "birthday", JStr(Date1940)),
     D2("gender", JInt(3), "birthday", JStr(Date2000)),
     D2("phone", JStr(Phone79), "first_name", JStr(<<"a">>)),
     D2("phone", JInt(7), "email", JStr(Email)),
     D2("phone", JStr(Phone79), "email", JStr(<<"a", "b">>)),
     D2("phone", JStr(Phone79), "email", None),
     D1("email", JStr(Email))}

InterestsArguments ==
    {D2("client_ids", JList(<<JInt(1), JInt(2)>>), "date", JStr(Date2017)),
     D1("client_ids", JList(<<JInt(2), JInt(2), JInt(1)>>)),
     D1("client_ids", JList(<<>>)),
     D1("client_ids", JList(<<JInt(1), JStr(<<"2">>)>>)),
     D1("client_ids", JStr(<<"1", "2">>)),
     D2("client_ids", None, "date", JStr(Date2017)),
     D2("client_ids", JList(<<JInt(1)>>), "date", JStr(DateIso)),
     D1("date", JStr(Date2017))}

Arguments ==
    {None, JList(<<>>), JDict(EmptyDict)} \cup ScoreArguments \cup InterestsArguments

Bodies ==
    {JDict(b) : b \in [account : Accounts, login : Logins, token : Tokens,
                       method : Methods, arguments : Arguments]}
    \cup {JDict(EmptyDict), JList(<<>>), None}

\* What do_POST and the tests hand to method_handler, and other envelopes
Requests == {D2("body", b, "headers", JDict(EmptyDict)) : b \in Bodies} \cup {None, JList(<<>>)}

\* The context of a call as do_POST makes it
InitialCtx == [k \in {"request_id"} |-> JStr(<<"rid">>)]

AllFail == [i \in 1..DefaultRetries |-> "ConnectionError"]

HandlerBehaviours == {AllOk, AllFail}

HandleRequest ==
    /\ hcall.op = "none"
    /\ \E request \in Requests, beh \in HandlerBehaviours : \E r \in {MethodHandler(request, InitialCtx, hour, TheStore, beh)} :
          /\ hcall' = [op |-> "method_handler", request |-> request, hour |-> hour,
                       beh |-> beh, before |-> TheStore, res |-> r]
          /\ StoreBecomes(r.st)
    /\ UNCHANGED <<scall, hour, scoreVars>>

\* The paths a client posts to
Paths == {<<"/", "m", "e", "t", "h", "o", "d">>, <<"/", "m", "e", "t", "h", "o", "d", "/">>,
          <<"/", "s", "c", "o", "r", "e">>, <<"/">>}

\* The method-call objects posted over HTTP: a known account, the user's or
\* the administrator's login, a right or a wrong token
PostBodies ==
    {JDict(b) : b \in [account : {JStr(Account)}, login : {JStr(ADMIN_LOGIN), JStr(Login)},
                       token : {JStr(<<"s", "d", "d">>), JStr(UserToken)}
                               \cup {JStr(AdminToken(h)) : h \in 1..MaxHour},
                       method : Methods, arguments : Arguments]}

\* The JSON values posted that are no method-call object
OtherValues == {JDict(EmptyDict), JList(<<>>), None, JInt(0), JInt(5), JStr(<<>>)}

PostData ==
    {Posted(TRUE, TRUE, v) : v \in PostBodies \cup OtherValues}
    \cup {Posted(TRUE, FALSE, None), Posted(FALSE, TRUE, JDict(EmptyDict))}

HandlePost ==
    /\ hcall.op = "none"
    /\ \E path \in Paths, data \in PostData, beh \in HandlerBehaviours : \E r \in {DoPost(path, data, hour, TheStore, beh)} :
          /\ hcall' = [op |-> "do_POST", path |-> path, data |-> data, hour |-> hour,
                       beh |-> beh, before |-> TheStore, res |-> r]
          /\ StoreBecomes(r.st)
    /\ UNCHANGED <<scall, hour, scoreVars>>

\* The caller has its answer
HandlerReturn ==
    /\ hcall.op # "none"
    /\ hcall' = NoCall
    /\ UNCHANGED <<storeVars, hour, scoreVars>>

\* The wall clock passes into the next hour
Tick ==
    /\ hcall.op = "none"
    /\ hour < MaxHour
    /\ hour' = hour + 1
    /\ UNCHANGED <<storeVars, hcall, scoreVars>>

Init ==
    /\ client = 0
    /\ conns = 0
    /\ retries = DefaultRetries
    /\ remote = InitialRemote
    /\ scall = NoCall
    /\ InitOther

Next ==
    \/ HandleRequest
    \/ HandlePost
    \/ HandlerReturn
    \/ Tick

Spec == Init /\ [][Next]_vars

----------------------------------------------------------------------------
(* Claims about the Store *)

PublicOps == {"cache_get", "cache_set", "get"}

\* C1: on a Store whose handle is unset, with the remote store reachable, the
\* first cache_get, cache_set or get establishes the connection and performs
\* the operation on the remote store.
C1_FirstUseConnects ==
    (/\ scall.op \in PublicOps
     /\ scall.before.client = 0
     /\ scall.before.retries >= 1
     /\ Reachable(scall.beh))
    => /\ client # 0
       /\ scall.res.kind = "return"
       /\ scall.op \in {"cache_get", "get"}
            => scall.res.val = RemoteGet(scall.before.remote, scall.key)
       /\ scall.op = "cache_set"
            => remote = RemoteSetex(scall.before.remote, scall.key, ScoreTTL, scall.val)

\* The part of C1 the code does keep: a call that starts with a handle and
\* meets no transport failure leaves that handle in place.
C1_HandleReused ==
    [][(/\ scall.op = "none"
        /\ scall'.op \in PublicOps
        /\ client # 0
        /\ retries >= 1
        /\ Reachable(scall'.beh)) => client' = client]_vars

\* C2: whatever the remote store does, cache_get returns a value or None and
\* cache_set returns normally; get_score over the Store returns the
\* accumulated score when the cache read and the cache write both fail.
C2_CacheNeverRaises ==
    /\ scall.op = "cache_get"
         => /\ scall.res.kind = "return"
            /\ scall.res.val.t \in {"none", "str"}
    /\ scall.op = "cache_set" => scall.res.kind = "return"
    /\ scall.op = "get_score"
         => /\ scall.res.kind = "return"
            /\ scall.res.excGet # "" => scall.res.excSet # ""
            /\ scall.res.excSet # ""
                 => scall.res.val =
                      JFloat((IF scall.args.phone # None THEN 3 ELSE 0)
                             + (IF scall.args.email # None THEN 3 ELSE 0))

C2_Witness ==
    /\ scall.op = "get_score"
    /\ scall.before.client # 0
    /\ scall.res.excGet = "RuntimeError"
    /\ scall.res.excSet = "AttributeError"
    /\ scall.res.kind = "return"
    /\ scall.res.val = JFloat(6)

\* C3: when every one of the `retries` attempts inside _execute fails with a
\* transport error, the error that leaves _execute is that transport error.
C3_TransportErrorPropagates ==
    (/\ scall.op \in {"_execute", "get"}
     /\ scall.before.retries >= 1
     /\ Len(scall.res.log) = scall.before.retries
     /\ \A i \in 1..Len(scall.res.log) : scall.res.log[i].out \in TransportErrors)
    => /\ scall.res.kind = "raise"
       /\ scall.res.exc = scall.res.log[Len(scall.res.log)].out

----------------------------------------------------------------------------
(* Claims about get_score *)

CacheGets(ops) == {i \in DOMAIN ops : ops[i].op = "cache_get"}
CacheSets(ops) == {i \in DOMAIN ops : ops[i].op = "cache_set"}

\* C8: two get_score calls with identical inputs on a store that keeps the
\* cache write return the same score; each call reads the cache key once, and
\* the accumulation and the cache_set run at most once, in the first call.
C8_Idempotent ==
    \A i, j \in DOMAIN gcalls :
        (i < j /\ gcalls[i].args = gcalls[j].args)
        => LET p == gcalls[i].res
               q == gcalls[j].res
           IN /\ p.kind = "return" /\ q.kind = "return"
              /\ q.val = p.val
              /\ Cardinality(CacheGets(p.ops)) = 1
              /\ Cardinality(CacheGets(q.ops)) = 1
              /\ p.ops[1].key = q.ops[1].key
              /\ ~q.acc
              /\ CacheSets(q.ops) = {}
              /\ Cardinality(CacheSets(p.ops)) <= 1

C8_Witness ==
    /\ Len(gcalls) >= 2
    /\ gcalls[1].args = gcalls[2].args
    /\ gcalls[1].res.acc
    /\ gcalls[1].res.val = JFloat(0)
    /\ gcalls[2].res.val = JFloat(0)

\* A value that is there and is not empty: not None, not ""
NonEmpty(x) == x # None /\ x # JStr(<<>>)

\* The cached value read as a number
AsNumber(x) == IF x = JStr(<<"1", ".", "5">>) THEN JFloat(3) ELSE x

\* C9 (amended): on a cache miss get_score returns 1.5 for a non-empty phone,
\* 1.5 for a non-empty email, 1.5 for a birthday with a gender that is not
\* None, 0.5 for a non-empty first name with a non-empty last name, and issues
\* exactly one cache_set with the key it queried, that score and a TTL of
\* 3600; on a hit it returns the cached value as a float and issues no
\* cache_set.
C9_ScoreAndCacheWrite ==
    \A i \in DOMAIN gcalls :
        LET c == gcalls[i]
            key == c.res.key
            want == JFloat((IF NonEmpty(c.args.phone) THEN 3 ELSE 0)
                           + (IF NonEmpty(c.args.email) THEN 3 ELSE 0)
                           + (IF c.args.birthday # None /\ c.args.gender # None
                              THEN 3 ELSE 0)
                           + (IF NonEmpty(c.args.first_name) /\ NonEmpty(c.args.last_name)
                              THEN 1 ELSE 0))
        IN /\ c.res.kind = "return"
           /\ c.res.ops[1] = [op |-> "cache_get", key |-> key]
           /\ key \notin DOMAIN c.before
                => /\ c.res.val = want
                   /\ c.res.ops = <<[op |-> "cache_get", key |-> key],
                                    [op |-> "cache_set", key |-> key, val |-> want,
                                     ttl |-> ScoreTTL]>>
           /\ key \in DOMAIN c.before
                => /\ c.res.val.t = "float"
                   /\ c.res.val = AsNumber(c.before[key])
                   /\ Len(c.res.ops) = 1

C9_Witness ==
    /\ Len(gcalls) >= 2
    /\ gcalls[1].before = [k \in {KeyPhone7} |-> JStr(<<"1", ".", "5">>)]
    /\ ~gcalls[1].res.acc
    /\ gcalls[1].res.val = JFloat(3)
    /\ gcalls[2].res.acc
    /\ gcalls[2].args.first_name = JStr(<<>>)
    /\ gcalls[2].args.last_name = JStr(<<"b">>)
    /\ gcalls[2].res.val = JFloat(9)
    /\ Len(gcalls[2].res.ops) = 2

\* C9 as first stated, "present" read as "not None": an empty first name
\* with a last name counts 0.5.
C9_PresentMeansNotNone ==
    \A i \in DOMAIN gcalls :
        LET c == gcalls[i]
        IN c.res.acc
           => c.res.val =
                JFloat((IF c.args.phone # None THEN 3 ELSE 0)
                       + (IF c.args.email # None THEN 3 ELSE 0)
                       + (IF c.args.birthday # None /\ c.args.gender # None
                          THEN 3 ELSE 0)
                       + (IF c.args.first_name # None /\ c.args.last_name # None
                          THEN 1 ELSE 0))

----------------------------------------------------------------------------
(* Claims about method_handler *)

Handled == hcall.op = "method_handler"

\* The body of the call, when the envelope and the body are mappings
HasBody ==
    /\ Handled
    /\ hcall.request.t = "dict"
    /\ "body" \in DOMAIN hcall.request.v
    /\ hcall.request.v["body"].t = "dict"

TheBody == hcall.request.v["body"].v

Given(name) == IF name \in DOMAIN TheBody THEN TheBody[name] ELSE None

\* The fields of the method-call object that are missing though required, or
\* break their rule
OuterInvalid ==
    {n \in {"login", "token", "method"} : Given(n).t # "str"}
    \cup {n \in {"account"} : Given(n).t \notin {"none", "str"}}
    \cup {n \in {"arguments"} : Given(n) = None}

\* The digest check_auth expects of this caller in the hour of the call
ExpectedToken ==
    IF Given("login") = JStr(ADMIN_LOGIN)
    THEN JStr(Sha512Hex(HourStr(hcall.hour) \o ADMIN_SALT))
    ELSE JStr(Sha512Hex((IF Given("account") = None THEN <<>> ELSE Given("account").v)
                        \o Given("login").v \o SALT))

Forbidden ==
    /\ hcall.res.kind = "return"
    /\ hcall.res.code = FORBIDDEN
    /\ hcall.res.payload = JStr(<<"Forbidden">>)

\* C4: a request whose body passes MethodRequest validation and whose token
\* differs from the expected digest is answered 403, for the administrator
\* as for any other login, the empty token included, whatever the method and
\* the arguments; the arguments are not validated.
C4_BadTokenForbidden ==
    (HasBody /\ OuterInvalid = {} /\ Given("token") # ExpectedToken)
    => /\ Forbidden
       /\ hcall.res.stage = "auth"
       /\ hcall.res.ctx = InitialCtx

C4_Witness ==
    /\ HasBody
    /\ Given("login") = JStr(Login)
    /\ Given("account") = JStr(Account)
    /\ Given("token") = JStr(<<>>)
    /\ Given("method") = JStr(<<"online_score">>)
    /\ Given("arguments") = JDict(EmptyDict)
    /\ Forbidden

\* C5 (amended): a body that passes MethodRequest validation, whose login is
\* the administrator's and whose token is not the digest of the current hour,
\* is answered 403 whatever its account, method and arguments.
C5_AdminBadTokenForbidden ==
    (/\ HasBody
     /\ OuterInvalid = {}
     /\ Given("login") = JStr(ADMIN_LOGIN)
     /\ Given("token") # JStr(AdminToken(hcall.hour)))
    => Forbidden

\* The administrator's token of the hour before is refused
C5_Witness ==
    /\ HasBody
    /\ Given("login") = JStr(ADMIN_LOGIN)
    /\ hcall.hour = 2
    /\ Given("token") = JStr(AdminToken(1))
    /\ Given("method") = JStr(<<"clients_interests">>)
    /\ Forbidden

\* C5 as first stated: the administrator's login with an incorrect token is
\* answered 403 regardless of the other fields.
C5_AdminBadTokenAlways403 ==
    (/\ HasBody
     /\ Given("login") = JStr(ADMIN_LOGIN)
     /\ Given("token").t = "str"
     /\ Given("token") # JStr(AdminToken(hcall.hour)))
    => Forbidden

\* C6: a body that fails MethodRequest validation is answered 422 with an
\* error mapping whose keys are exactly the invalid fields, however many they
\* are; validation passes exactly when no field is invalid.
C6_OuterErrorsExact ==
    HasBody
    => /\ OuterInvalid # {}
            => /\ hcall.res.kind = "return"
               /\ hcall.res.code = INVALID_REQUEST
               /\ hcall.res.stage = "outer"
               /\ hcall.res.payload.t = "dict"
               /\ DOMAIN hcall.res.payload.v = OuterInvalid
       /\ OuterInvalid = {} => hcall.res.stage \notin {"envelope", "outer"}

C6_Witness ==
    /\ HasBody
    /\ OuterInvalid = {"account", "login", "method", "arguments"}
    /\ hcall.res.code = INVALID_REQUEST
    /\ DOMAIN hcall.res.payload.v = {"account", "login", "method", "arguments"}

\* The arguments of the call as a mapping that passes OnlineScoreRequest
\* validation and the rule on pairs
ScoreCallPasses ==
    /\ HasBody
    /\ OuterInvalid = {}
    /\ Given("token") = ExpectedToken
    /\ Given("method") = JStr(<<"online_score">>)
    /\ Given("arguments").t = "dict"
    /\ Validate(OnlineScoreFields, Given("arguments").v).ok
    /\ LET a == Given("arguments").v
           has(n) == n \in DOMAIN a /\ a[n] # None
       IN \/ has("phone") /\ has("email")
          \/ has("first_name") /\ has("last_name")
          \/ has("gender") /\ has("birthday")

\* C7: an administrator's online_score call that passes authentication,
\* validation and the rule on pairs is answered 200 with {"score": 42}, and
\* no store call is made.
C7_AdminScore42 ==
    (ScoreCallPasses /\ Given("login") = JStr(ADMIN_LOGIN))
    => /\ hcall.res.kind = "return"
       /\ hcall.res.code = OK
       /\ hcall.res.payload = JDict([k \in {"score"} |-> JInt(42)])
       /\ hcall.res.ops = <<>>
       /\ hcall.res.st = hcall.before

C7_Witness ==
    /\ ScoreCallPasses
    /\ Given("login") = JStr(ADMIN_LOGIN)
    /\ hcall.hour = 2
    /\ Given("arguments") = D2("gender", JInt(0), "birthday", JStr(Date2000))
    /\ hcall.res.code = OK
    /\ hcall.res.payload = JDict([k \in {"score"} |-> JInt(42)])

\* The interests the remote store holds for a client id, decoded
StoredInterests(rem, id) ==
    IF <<"i:">> \o IntStr(id) \in DOMAIN rem
    THEN JsonLoads(rem[<<"i:">> \o IntStr(id)].v)
    ELSE JList(<<>>)

\* C10: a clients_interests call that passes authentication and validation
\* with the id list L is answered 200 with a mapping from the string form of
\* each id of L to the list stored under i:<id>, the empty list when there is
\* none, and ctx["nclients"] is the length of L.
C10_InterestsAnswer ==
    (/\ HasBody
     /\ OuterInvalid = {}
     /\ Given("token") = ExpectedToken
     /\ Given("method") = JStr(<<"clients_interests">>)
     /\ Given("arguments").t = "dict"
     /\ Validate(ClientsInterestsFields, Given("arguments").v).ok
     /\ Reachable(hcall.beh))
    => LET L == Given("arguments").v["client_ids"].v
       IN /\ hcall.res.kind = "return"
          /\ hcall.res.code = OK
          /\ hcall.res.ctx["nclients"] = JInt(Len(L))
          /\ hcall.res.payload.t = "dict"
          /\ DOMAIN hcall.res.payload.v = {IntStr(L[i].v) : i \in 1..Len(L)}
          /\ \A i \in 1..Len(L) :
                hcall.res.payload.v[IntStr(L[i].v)] = StoredInterests(hcall.before.remote, L[i].v)

----------------------------------------------------------------------------
(* Claims about do_POST *)

Posts == hcall.op = "do_POST"

\* The text posted parsed as JSON into a mapping
PostHasBody ==
    /\ Posts
    /\ hcall.data.length
    /\ hcall.data.json
    /\ hcall.data.value.t = "dict"

PGiven(name) == DictGet(hcall.data.value.v, name)

Routed == Strip(hcall.path) \in Router

\* The posted method-call object passes MethodRequest validation and
\* check_auth
PostAuthenticated ==
    /\ PostHasBody
    /\ \A n \in {"login", "token", "method"} : PGiven(n).t = "str"
    /\ PGiven("account").t \in {"none", "str"}
    /\ PGiven("arguments") # None
    /\ PGiven("token") =
         (IF PGiven("login") = JStr(ADMIN_LOGIN)
          THEN JStr(Sha512Hex(HourStr(hcall.hour) \o ADMIN_SALT))
          ELSE JStr(Sha512Hex((IF PGiven("account") = None THEN <<>> ELSE PGiven("account").v)
                              \o PGiven("login").v \o SALT)))

\* Store.get cannot succeed: the handle is unset or the remote store fails
GetFails == hcall.before.client = 0 \/ ~Reachable(hcall.beh)

InternalErrorAnswer ==
    JDict([k \in {"error", "code"} |->
             IF k = "code" THEN JInt(INTERNAL_ERROR) ELSE JStr(<<"Internal Server Error">>)])

\* C11: when Store.get fails during a clients_interests call that has passed
\* authentication and validation, method_handler returns nothing, the
\* exception reaches do_POST, and the HTTP answer is 500 with the error
\* payload; the call is not answered 200 with empty interests lists.
C11_StoreFailureIs500 ==
    (/\ PostAuthenticated
     /\ Routed
     /\ PGiven("method") = JStr(<<"clients_interests">>)
     /\ PGiven("arguments").t = "dict"
     /\ Validate(ClientsInterestsFields, PGiven("arguments").v).ok
     /\ GetFails)
    => /\ hcall.res.handler.kind = "raise"
       /\ hcall.res.handler.stage = "interests"
       /\ hcall.res.status = INTERNAL_ERROR
       /\ hcall.res.r = InternalErrorAnswer

C11_Witness ==
    /\ PostAuthenticated
    /\ hcall.path = <<"/", "m", "e", "t", "h", "o", "d", "/">>
    /\ PGiven("login") = JStr(Login)
    /\ PGiven("arguments") = D2("client_ids", JList(<<JInt(1), JInt(2)>>), "date", JStr(Date2017))
    /\ hcall.beh = AllFail
    /\ hcall.res.handler.kind = "raise"
    /\ hcall.res.status = INTERNAL_ERROR
    /\ hcall.res.r = InternalErrorAnswer

----------------------------------------------------------------------------
(* Claims about the branches of method_handler *)

\* The call passes MethodRequest validation and check_auth
Authenticated == HasBody /\ OuterInvalid = {} /\ Given("token") = ExpectedToken

\* An online_score call that passes check_auth and OnlineScoreRequest
\* validation
ScoreCallValid ==
    /\ Authenticated
    /\ Given("method") = JStr(<<"online_score">>)
    /\ Given("arguments").t = "dict"
    /\ Validate(OnlineScoreFields, Given("arguments").v).ok

\* Both arguments are given and neither is null
BothNonNull(n1, n2) ==
    LET a == Given("arguments").v
    IN /\ n1 \in DOMAIN a /\ a[n1] # None
       /\ n2 \in DOMAIN a /\ a[n2] # None

SomePairNonNull ==
    \/ BothNonNull("phone", "email")
    \/ BothNonNull("first_name", "last_name")
    \/ BothNonNull("gender", "birthday")

KnownMethods == {JStr(<<"online_score">>), JStr(<<"clients_interests">>)}

\* The schema of the arguments of the method called
InnerFields ==
    IF Given("method") = JStr(<<"online_score">>) THEN OnlineScoreFields
    ELSE ClientsInterestsFields

\* The first check, in the order envelope, outer validation, authentication,
\* method, arguments, inner validation, rule on pairs, that the call fails
FirstFailure ==
    IF ~HasBody THEN "envelope"
    ELSE IF OuterInvalid # {} THEN "outer"
    ELSE IF Given("token") # ExpectedToken THEN "auth"
    ELSE IF Given("method") \notin KnownMethods THEN "method"
    ELSE IF Given("arguments").t # "dict" THEN "args"
    ELSE IF ~Validate(InnerFields, Given("arguments").v).ok THEN "inner"
    ELSE IF Given("method") = JStr(<<"online_score">>) /\ ~SomePairNonNull THEN "cross"
    ELSE "passed"

Refused == hcall.res.kind = "return" /\ hcall.res.code \in {FORBIDDEN, INVALID_REQUEST}

\* C13: a call answered 403 or 422 makes no store operation and leaves the
\* store as it was; a call that fails any of the checks is refused at the
\* first check it fails, and a store operation is made only by a call that
\* has passed them all.
C13_NoStoreBeforeChecks ==
    Handled
    => /\ Refused
            => /\ hcall.res.ops = <<>>
               /\ hcall.res.st = hcall.before
               /\ hcall.res.stage = FirstFailure
       /\ FirstFailure # "passed" => Refused
       /\ hcall.res.ops # <<>> => FirstFailure = "passed"

\* An authenticated call of an unknown method
C13_Witness ==
    /\ Authenticated
    /\ Given("method") = JStr(<<"delete_everything">>)
    /\ Given("arguments") = D1("client_ids", JList(<<JInt(2), JInt(2), JInt(1)>>))
    /\ hcall.res.code = INVALID_REQUEST
    /\ hcall.res.payload = ErrorPayload("Invalid request")
    /\ hcall.res.ops = <<>>

\* client_ids is absent, null, not a list, an empty list, or a list with an
\* element that is not an integer
BadClientIds ==
    LET a == Given("arguments").v
    IN \/ "client_ids" \notin DOMAIN a
       \/ a["client_ids"] = None
       \/ a["client_ids"].t # "list"
       \/ a["client_ids"].v = <<>>
       \/ \E i \in DOMAIN a["client_ids"].v : a["client_ids"].v[i].t # "int"

----------------------------------------------------------------------------
(* Claims about Store._execute *)

\* C15: _execute runs the operation at most `retries` times and stops at the
\* first attempt that succeeds, returning then; after an attempt that fails
\* with a transport error the handle is dropped, and the next attempt has a
\* newly made connection as the handle and runs the operation on it, not on
\* the one dropped.
C15_RetryOnFreshConnection ==
    scall.op \in PublicOps \cup {"_execute"}
    => LET log == scall.res.log
       IN /\ Len(log) <= scall.before.retries
          /\ \A i \in DOMAIN log :
                /\ log[i].out = "ok" => i = Len(log) /\ scall.res.exc = ""
                /\ (log[i].out \in TransportErrors /\ i < Len(log))
                     => /\ log[i + 1].cur # log[i].cur
                        /\ log[i + 1].cur > scall.before.conns
                        /\ log[i + 1].used \in {0, log[i + 1].cur}
                /\ (log[i].out \in TransportErrors /\ i = Len(log)) => client = 0

----------------------------------------------------------------------------
(* Claims about get_score and the cache *)

\* The accumulation value of the arguments a: 1.5 phone, 1.5 email, 1.5
\* birthday with gender, 0.5 first with last name
OwnScore(a) ==
    JFloat((IF NonEmpty(a.phone) THEN 3 ELSE 0)
           + (IF NonEmpty(a.email) THEN 3 ELSE 0)
           + (IF a.birthday # None /\ a.gender # None THEN 3 ELSE 0)
           + (IF NonEmpty(a.first_name) /\ NonEmpty(a.last_name) THEN 1 ELSE 0))

\* C16: in a sequence of get_score calls on a store that keeps the cache
\* writes and starts empty, every call returns the accumulation value of its
\* own arguments, whatever the calls before it wrote to the cache.
C16_ScoreOfOwnArguments ==
    (gcalls # <<>> /\ gcalls[1].before = EmptyDict)
    => \A i \in DOMAIN gcalls :
          /\ gcalls[i].res.kind = "return"
          /\ gcalls[i].res.val = OwnScore(gcalls[i].args)

----------------------------------------------------------------------------
(* Claims about the status do_POST sends *)

\* The text posted is read and parses as JSON
Parses == hcall.data.length /\ hcall.data.json

\* method_handler was called
HandlerCalled == hcall.res.handler.kind \in {"return", "raise"}

\* C17: do_POST answers 200 only when the request went to method_handler and
\* the handler returned 200; a body that parses, posted to the routed path,
\* gets the code the handler returned, or 500 when it raised; a body that
\* does not parse gets 400; a parsed body on any other path gets 404.
C17_StatusFollowsHandler ==
    Posts
    => /\ hcall.res.status = OK
            => /\ hcall.res.handler.kind = "return"
               /\ hcall.res.handler.code = OK
       /\ (Parses /\ Routed)
            => /\ HandlerCalled
               /\ hcall.res.handler.kind = "return"
                    => hcall.res.status = hcall.res.handler.code
               /\ hcall.res.handler.kind = "raise" => hcall.res.status = INTERNAL_ERROR
       /\ ~Parses => hcall.res.status = BAD_REQUEST
       /\ (Parses /\ ~Routed) => hcall.res.status = NOT_FOUND

----------------------------------------------------------------------------
(* Claims about the call context *)

\* A clients_interests call that passes check_auth and
\* ClientsInterestsRequest validation
InterestsCallValid ==
    /\ Authenticated
    /\ Given("method") = JStr(<<"clients_interests">>)
    /\ Given("arguments").t = "dict"
    /\ Validate(ClientsInterestsFields, Given("arguments").v).ok

\* C18: a call answered 403 or 422 leaves ctx as it was given; ctx has the
\* key "has" only after an online_score call that passed the rule on pairs,
\* the key "nclients" only after a clients_interests call that passed inner
\* validation, and no other key is added or changed.
C18_ContextFrame ==
    Handled
    => LET ctx == hcall.res.ctx
       IN /\ Refused => ctx = InitialCtx
          /\ "has" \in DOMAIN ctx => ScoreCallValid /\ SomePairNonNull
          /\ "nclients" \in DOMAIN ctx => InterestsCallValid
          /\ DOMAIN ctx \subseteq DOMAIN InitialCtx \cup {"has", "nclients"}
          /\ \A k \in DOMAIN InitialCtx : ctx[k] = InitialCtx[k]

\* The administrator's call records the names of its arguments
C18_Witness ==
    /\ ScoreCallValid
    /\ Given("login") = JStr(ADMIN_LOGIN)
    /\ Given("arguments") = D2("gender", JInt(0), "birthday", JStr(Date2000))
    /\ hcall.res.code = OK
    /\ DOMAIN hcall.res.ctx = {"request_id", "has"}
    /\ hcall.res.ctx["has"].v = {"gender", "birthday"}

====
